---- MODULE Spec2Model ----
(***************************************************************************)
(* Model of the S3-to-SharePoint adapter: the token cache of               *)
(* utils/azure.rs (TOKEN_DATA, get_token, fetch_token), the path           *)
(* translation prepare_prefix, the synthetic HEAD of head_azure_object and *)
(* head_handler, the name gate of get_object, and the ListBucketResult     *)
(* rendering of utils/s3.rs.                                               *)
(*                                                                         *)
(* Strings are sequences of one-character strings, so that trimming,       *)
(* suffix tests, lower-casing and pattern matching are computed.           *)
(* An Option<T> is a sequence of length at most one: <<>> is None and      *)
(* <<x>> is Some(x).                                                       *)
(***************************************************************************)
EXTENDS Integers, Sequences, FiniteSets, TLC

\* ------------------------------------------------------------------ bounds
MaxNow == 2
MaxLife == 2
MaxTok == 3
MaxItems == 2

Procs == {1, 2}

\* ----------------------------------------------------------------- strings
Str_empty == << >>
Str_slash == <<"/">>
Str_slashslash == <<"/", "/">>
Str_docs == <<"d", "o", "c", "s">>
Str_docs_slash == <<"d", "o", "c", "s", "/">>
Str_slash_docs_slash == <<"/", "d", "o", "c", "s", "/">>
Str_a_txt == <<"a", ".", "t", "x", "t">>
Str_report_pdf == <<"r", "e", "p", "o", "r", "t", ".", "p", "d", "f">>
Str_REPORT_PDF == <<"R", "E", "P", "O", "R", "T", ".", "P", "D", "F">>
Str_report_docx == <<"r", "e", "p", "o", "r", "t", ".", "d", "o", "c", "x">>
Str_dir_report_pdf == <<"d", "i", "r", "/">> \o Str_report_pdf
Str_report_a_txt == <<"r", "e", "p", "o", "r", "t", "/">> \o Str_a_txt
Str_docs_report_docx == Str_docs_slash \o Str_report_docx
Str_x == <<"x">>
Str_report == <<"r", "e", "p", "o", "r", "t">>
Str_dot_pdf == <<".", "p", "d", "f">>

\* str::to_lowercase, on the letters the model's names use
LowerChar(c) ==
    CASE c = "R" -> "r"
      [] c = "E" -> "e"
      [] c = "P" -> "p"
      [] c = "O" -> "o"
      [] c = "T" -> "t"
      [] c = "D" -> "d"
      [] c = "F" -> "f"
      [] OTHER -> c

to_lowercase(s) == [i \in 1..Len(s) |-> LowerChar(s[i])]

\* str::trim_start_matches("/"): removes every leading '/'
RECURSIVE trim_start_matches(_)
trim_start_matches(s) ==
    IF Len(s) > 0 /\ s[1] = "/" THEN trim_start_matches(Tail(s)) ELSE s

\* str::trim_end_matches("/"): removes every trailing '/'
RECURSIVE trim_end_matches(_)
trim_end_matches(s) ==
    IF Len(s) > 0 /\ s[Len(s)] = "/"
    THEN trim_end_matches(SubSeq(s, 1, Len(s) - 1))
    ELSE s

\* str::ends_with('/')
ends_with_slash(s) == Len(s) > 0 /\ s[Len(s)] = "/"

\* file_path.split('/').last(): the text after the last '/'
RECURSIVE split_last(_)
split_last(s) ==
    IF \E i \in 1..Len(s) : s[i] = "/"
    THEN split_last(Tail(s))
    ELSE s

\* ---------------------------------------------------------------- patterns
\* A filename pattern is a literal with optional ^ and $ anchors; the empty
\* literal without anchors is the default pattern "" that matches anything.
PatAll == [start |-> FALSE, lit |-> Str_empty, end |-> FALSE]
PatPdf == [start |-> FALSE, lit |-> Str_dot_pdf, end |-> TRUE]
PatReport == [start |-> TRUE, lit |-> Str_report, end |-> FALSE]
Patterns == {PatAll, PatPdf, PatReport}

\* Regex::is_match: the pattern matches somewhere in the text
is_match(pat, s) ==
    \E i \in 0..Len(s) :
        /\ i + Len(pat.lit) <= Len(s)
        /\ SubSeq(s, i + 1, i + Len(pat.lit)) = pat.lit
        /\ pat.start => i = 0
        /\ pat.end => i + Len(pat.lit) = Len(s)

\* ------------------------------------------------------------ path translation
Str_children == <<"/", "c", "h", "i", "l", "d", "r", "e", "n">>
Str_search_open == <<"/", "s", "e", "a", "r", "c", "h", "(", "q", "=", "'">>
Str_search_close == <<"'", ")">>
Str_colon_slash == <<":", "/">>

prepare_prefix_root_only_slash(prefix, search_query) ==
    IF prefix = Str_slash
    THEN IF search_query = Str_empty
         THEN Str_children
         ELSE Str_search_open \o search_query \o Str_search_close
    ELSE IF search_query = Str_empty
         THEN Str_colon_slash \o trim_end_matches(trim_start_matches(prefix))
                \o Str_colon_slash \o Tail(Str_children)
         ELSE Str_colon_slash \o trim_end_matches(trim_start_matches(prefix))
                \o Str_colon_slash \o Tail(Str_search_open) \o search_query
                \o Str_search_close

prepare_prefix(prefix, search_query) ==
    IF prefix = Str_slash \/ prefix = Str_empty
    THEN IF search_query = Str_empty
         THEN Str_children
         ELSE Str_search_open \o search_query \o Str_search_close
    ELSE IF search_query = Str_empty
         THEN Str_colon_slash \o trim_end_matches(trim_start_matches(prefix))
                \o Str_colon_slash \o Tail(Str_children)
         ELSE Str_colon_slash \o trim_end_matches(trim_start_matches(prefix))
                \o Str_colon_slash \o Tail(Str_search_open) \o search_query
                \o Str_search_close

\* ------------------------------------------------------------------- items
\* Item of utils/azure.rs: folder and file are Option fields (here: is_some),
\* size, lastModifiedDateTime and eTag are Options.
Names == {Str_a_txt, Str_docs, Str_report_pdf, Str_REPORT_PDF, Str_report_docx}
Kinds == {"file", "folder", "neither"}

MimeOf(name) ==
    IF name = Str_a_txt THEN "text/plain" ELSE "application/pdf"

Item(name, kind) ==
    [name |-> name,
     folder |-> (kind = "folder"),
     file |-> (kind = "file"),
     mime_type |-> IF kind = "file" THEN MimeOf(name) ELSE "",
     size |-> IF name = Str_a_txt \/ name = Str_report_pdf THEN <<7>> ELSE << >>,
     last_modified_date_time |-> IF name = Str_a_txt THEN <<"t1">> ELSE << >>,
     e_tag |-> IF name = Str_a_txt THEN <<"e1">> ELSE << >>]

Items == {Item(n, k) : n \in Names, k \in Kinds}

\* SharePointObjects.items: the ordered collections one catalog call can return
Collections ==
    UNION {[1..n -> Items] : n \in 0..MaxItems}

\* Option::unwrap_or
unwrap_or(opt, default) == IF opt = << >> THEN default ELSE opt[1]

\* --------------------------------------------------------------- responses
\* What a handler leaves in salvo's Response: status, Content-Type,
\* Content-Length (HEAD), the rendered body and the attachment file name.
NoResp == [status |-> 0, ctype |-> "", size |-> 0, body |-> << >>, fname |-> << >>]
Aborted == [status |-> 0, ctype |-> "aborted", size |-> 0, body |-> << >>, fname |-> << >>]

\* ------------------------------------------------------------------- HEAD
\* HeadAzureObjectResponse
HeadResp(status, ctype, size) ==
    [status_code |-> status, content_type |-> ctype, size |-> size]

\* `key` of head_azure_object: the empty path is probed as "/"
head_key(file_path) == IF file_path = Str_empty THEN Str_slash ELSE file_path

\* `part` of head_azure_object
head_part(file_path) ==
    IF file_path = Str_empty \/ file_path = Str_slash
    THEN Str_empty
    ELSE Str_colon_slash

head_url(file_path) == head_part(file_path) \o head_key(file_path)

head_resolve_no_gate(pat, file_path, result) ==
    IF ends_with_slash(head_key(file_path))
    THEN IF result.folder
         THEN HeadResp(200, "application/xml", 0)
         ELSE HeadResp(404, "application/xml", 0)
    ELSE IF result.file
         THEN HeadResp(200, result.mime_type, unwrap_or(result.size, 0))
         ELSE HeadResp(404, "application/xml", 0)

\* The Ok(result) arm of head_azure_object
head_resolve(pat, file_path, result) ==
    IF ends_with_slash(head_key(file_path))
    THEN IF result.folder
         THEN HeadResp(200, "application/xml", 0)
         ELSE HeadResp(404, "application/xml", 0)
    ELSE IF result.file
         THEN IF ~is_match(pat, result.name)
              THEN HeadResp(403, "application/xml", 0)
              ELSE HeadResp(200, result.mime_type, unwrap_or(result.size, 0))
         ELSE HeadResp(404, "application/xml", 0)

\* head_handler: Ok(result) copies the three fields, Err(_) answers 404
head_handler_ok(result) ==
    [status |-> result.status_code, ctype |-> result.content_type,
     size |-> result.size, body |-> << >>, fname |-> << >>]

head_handler_err ==
    [status |-> 404, ctype |-> "application/xml", size |-> 0,
     body |-> << >>, fname |-> << >>]

\* -------------------------------------------------------------------- GET
\* The gate of get_object: the pattern is matched against the whole key
get_object_gate(pat, key) == is_match(pat, key)

get_object_ok(content_type, key) ==
    [status |-> 200, ctype |-> content_type, size |-> 0,
     body |-> << >>, fname |-> split_last(key)]

ServerError ==
    [status |-> 500, ctype |-> "text/plain; charset=utf-8", size |-> 0,
     body |-> << >>, fname |-> << >>]

Forbidden ==
    [status |-> 403, ctype |-> "", size |-> 0, body |-> << >>, fname |-> << >>]

\* ------------------------------------------------------------------- LIST
\* One XML element of the ListBucketResult, children flattened into fields.
Element(tag, text) ==
    [tag |-> tag, text |-> text, size |-> << >>, lastModified |-> << >>,
     etag |-> << >>, storageClass |-> ""]

ContentsElement(key, size, lm, etag) ==
    [tag |-> "Contents", text |-> key, size |-> <<size>>, lastModified |-> <<lm>>,
     etag |-> <<etag>>, storageClass |-> "STANDARD"]

\* The Contents element written before the items: Key and Size only
PlaceholderElement(prefix) ==
    [tag |-> "Contents", text |-> trim_start_matches(prefix) \o Str_slash,
     size |-> <<0>>, lastModified |-> << >>, etag |-> << >>, storageClass |-> ""]

\* The filter of the Contents loop: File kind and lower-cased name matches
list_filter(pat, item) == item.file /\ is_match(pat, to_lowercase(item.name))

folders_of(objects) == SelectSeq(objects, LAMBDA item : item.folder)

files_of(pat, objects) == SelectSeq(objects, LAMBDA item : list_filter(pat, item))

common_prefixes(prefix, objects) ==
    [i \in 1..Len(folders_of(objects)) |->
        Element("CommonPrefixes",
                trim_start_matches(prefix) \o Str_slash
                    \o folders_of(objects)[i].name \o Str_slash)]

contents(pat, prefix, objects) ==
    [i \in 1..Len(files_of(pat, objects)) |->
        ContentsElement(
            trim_start_matches(prefix) \o Str_slash \o files_of(pat, objects)[i].name,
            unwrap_or(files_of(pat, objects)[i].size, 0),
            unwrap_or(files_of(pat, objects)[i].last_modified_date_time, ""),
            unwrap_or(files_of(pat, objects)[i].e_tag, ""))]

generate_s3_list_objects_v2_response(pat, bucket, prefix, objects, files_only) ==
    << Element("Name", bucket),
       Element("Prefix", trim_start_matches(prefix) \o Str_slash),
       Element("IsTruncated", <<"false">>),
       Element("MaxKeys", <<"1000">>),
       Element("Marker", Str_empty) >>
    \o (IF ~files_only THEN common_prefixes(prefix, objects) ELSE << >>)
    \o << PlaceholderElement(prefix) >>
    \o contents(pat, prefix, objects)

\* Text::Xml of list_objects_v1
list_ok(body) ==
    [status |-> 200, ctype |-> "application/xml; charset=utf-8", size |-> 0,
     body |-> body, fname |-> << >>]

\* ----------------------------------------------------------------- SEARCH
\* The filter of search_handler: no folder field and the raw name matches
search_filter(pat, item) == ~item.folder /\ is_match(pat, item.name)

\* The search results, one per retained item (recorded by the item's name)
search_results(pat, objects) ==
    [i \in 1..Len(SelectSeq(objects, LAMBDA item : search_filter(pat, item))) |->
        SelectSeq(objects, LAMBDA item : search_filter(pat, item))[i].name]

search_ok(results) ==
    [status |-> 200, ctype |-> "application/json; charset=utf-8", size |-> 0,
     body |-> results, fname |-> << >>]

\* =================================================================== state
VARIABLES
    now,          \* Utc::now(), in ticks
    pattern,      \* config().filename_pattern
    peak,         \* the most token exchanges that were in flight at once
    cache,        \* TOKEN_DATA: Option<TokenData>
    lock,         \* holder of the TOKEN_DATA mutex, 0 when free
    issued,       \* number of tokens the issuer has handed out
    lastWriter,   \* the caller whose store was the latest, 0 before any store
    pc,           \* position of each request task
    req,          \* the request each task serves
    observed,     \* what get_token read from the cache under the lock
    checkedAt,    \* the Utc::now() get_token compared expires_at with
    newtok,       \* new_token_data of get_token
    tokRet,       \* Ok value returned by get_token
    exchanges,    \* token exchanges sent during the current request
    exchOutcome,  \* how the current request's token exchange ended
    remoteCalls,  \* Graph calls sent during the current request
    url,          \* relative path of the Graph call
    remote,       \* what the Graph call returned
    resp          \* the response the handler produced

vars == <<now, pattern, peak, cache, lock, issued, lastWriter, pc, req, observed,
          checkedAt, newtok, tokRet, exchanges, exchOutcome, remoteCalls,
          url, remote, resp>>

tokenVars == <<cache, lock, issued, lastWriter, observed, checkedAt, newtok,
               tokRet, exchanges, exchOutcome>>

\* TokenData
TokenData(access_token, expires_at) ==
    [access_token |-> access_token, expires_at |-> expires_at]

NoToken == TokenData(0, 0)

NoReq == [kind |-> "none", key |-> << >>, param |-> << >>, prefix |-> << >>,
          query |-> << >>]
NoRemote == [kind |-> "none", payload |-> << >>]

\* Keys, prefixes and queries the requests are drawn from
Keys == {Str_empty, Str_slash, Str_docs_slash, Str_docs, Str_a_txt,
         Str_report_pdf, Str_dir_report_pdf, Str_report_a_txt,
         Str_docs_report_docx}
Prefixes == {Str_empty, Str_slash, Str_slashslash, Str_docs, Str_slash_docs_slash}
Queries == {Str_empty, Str_x}

Init ==
    /\ now = 0
    /\ pattern \in Patterns
    /\ peak = 0
    /\ cache = << >>
    /\ lock = 0
    /\ issued = 0
    /\ lastWriter = 0
    /\ pc = [p \in Procs |-> "idle"]
    /\ req = [p \in Procs |-> NoReq]
    /\ observed = [p \in Procs |-> << >>]
    /\ checkedAt = [p \in Procs |-> 0]
    /\ newtok = [p \in Procs |-> NoToken]
    /\ tokRet = [p \in Procs |-> << >>]
    /\ exchanges = [p \in Procs |-> 0]
    /\ exchOutcome = [p \in Procs |-> "none"]
    /\ remoteCalls = [p \in Procs |-> 0]
    /\ url = [p \in Procs |-> << >>]
    /\ remote = [p \in Procs |-> NoRemote]
    /\ resp = [p \in Procs |-> NoResp]

\* ------------------------------------------------------------------- time
Tick ==
    /\ now < MaxNow
    /\ now' = now + 1
    /\ UNCHANGED <<pattern, peak, cache, lock, issued, lastWriter, pc, req, observed,
                   checkedAt, newtok, tokRet, exchanges, exchOutcome,
                   remoteCalls, url, remote, resp>>

\* Time passing between two calls that follow one another
TickBetweenCalls ==
    /\ \A q \in Procs : pc[q] = "idle"
    /\ Tick

\* -------------------------------------------------------------- get_token
\* A caller enters get_token (any of the three Graph clients)
Call(p) ==
    /\ pc[p] = "idle"
    /\ pc' = [pc EXCEPT ![p] = "start"]
    /\ req' = [req EXCEPT ![p] = [NoReq EXCEPT !.kind = "token"]]
    /\ UNCHANGED <<now, pattern, peak, tokenVars, remoteCalls, url, remote, resp>>

\* A call made when no other call is in progress
SeqCall(p) ==
    /\ \A q \in Procs : pc[q] = "idle"
    /\ Call(p)

\* TOKEN_DATA.lock().await, first acquisition
Lock1(p) ==
    /\ pc[p] = "start"
    /\ lock = 0
    /\ lock' = p
    /\ pc' = [pc EXCEPT ![p] = "check"]
    /\ UNCHANGED <<now, pattern, peak, cache, issued, lastWriter, req, observed,
                   checkedAt, newtok, tokRet, exchanges, exchOutcome,
                   remoteCalls, url, remote, resp>>

IsValidInclusive(data, t) == data.expires_at >= t

\* data.expires_at > Utc::now()
IsValid(data, t) == data.expires_at > t

GuardHeldAcrossFetch(valid, holder) == IF valid THEN 0 ELSE holder

\* The holder of the mutex after the validity check: the guard goes out of
\* scope at the early return and is dropped explicitly before fetch_token
GuardAfterCheck(valid, holder) == 0

\* The validity check under the lock: return the cached token, or drop the
\* guard and go on to fetch_token
Check(p) ==
    /\ pc[p] = "check"
    /\ observed' = [observed EXCEPT ![p] = cache]
    /\ checkedAt' = [checkedAt EXCEPT ![p] = now]
    /\ lock' = GuardAfterCheck(cache # << >> /\ IsValid(cache[1], now), p)
    /\ IF cache # << >> /\ IsValid(cache[1], now)
       THEN /\ tokRet' = [tokRet EXCEPT ![p] = <<cache[1].access_token>>]
            /\ pc' = [pc EXCEPT ![p] = "gotToken"]
       ELSE /\ tokRet' = tokRet
            /\ pc' = [pc EXCEPT ![p] = "fetch"]
    /\ UNCHANGED <<now, pattern, peak, cache, issued, lastWriter, req, newtok,
                   exchanges, exchOutcome, remoteCalls, url, remote, resp>>

\* The number of token exchanges in flight
InFlight(positions) == Cardinality({q \in Procs : positions[q] = "inflight"})

\* fetch_token: the POST to the identity endpoint is sent
Send(p) ==
    /\ pc[p] = "fetch"
    /\ exchanges' = [exchanges EXCEPT ![p] = @ + 1]
    /\ pc' = [pc EXCEPT ![p] = "inflight"]
    /\ peak' = IF InFlight(pc') > peak THEN InFlight(pc') ELSE peak
    /\ UNCHANGED <<now, pattern, cache, lock, issued, lastWriter, req, observed,
                   checkedAt, newtok, tokRet, exchOutcome, remoteCalls, url,
                   remote, resp>>

\* fetch_token returns Ok: the issuer hands out a fresh token, distinct from
\* every earlier one, whose exp claim lies `life` ticks ahead
ExchangeOk(p) ==
    /\ pc[p] = "inflight"
    /\ issued < MaxTok
    /\ \E life \in 1..MaxLife :
          newtok' = [newtok EXCEPT ![p] = TokenData(issued + 1, now + life)]
    /\ issued' = issued + 1
    /\ exchOutcome' = [exchOutcome EXCEPT ![p] = "ok"]
    /\ pc' = [pc EXCEPT ![p] = "lock2"]
    /\ UNCHANGED <<now, pattern, peak, cache, lock, lastWriter, req, observed,
                   checkedAt, tokRet, exchanges, remoteCalls, url, remote, resp>>

\* How a token exchange can fail: send() fails, the body is no TokenResponse,
\* or decode_no_verify rejects the access token (no exp claim, or a claim
\* that fails the validation)
ExchangeFailures == {"unreachable", "undecodable", "noexpiry"}

CacheClearedOnFailure(current) == << >>

\* TOKEN_DATA after a failed exchange: the store of get_token is not reached
CacheAfterFailure(current) == current

\* Every failure ends in an unwrap() of an Err: in fetch_token for
\* "unreachable" and "noexpiry", in get_token for "undecodable". The task
\* panics; the mutex is not held at that point and the cache is untouched.
ExchangeFail(p) ==
    /\ pc[p] = "inflight"
    /\ \E o \in ExchangeFailures :
          exchOutcome' = [exchOutcome EXCEPT ![p] = o]
    /\ pc' = [pc EXCEPT ![p] = "panicked"]
    /\ resp' = [resp EXCEPT ![p] = Aborted]
    /\ cache' = CacheAfterFailure(cache)
    /\ UNCHANGED <<now, pattern, peak, lock, issued, lastWriter, req, observed,
                   checkedAt, newtok, tokRet, exchanges, remoteCalls, url,
                   remote>>

\* TOKEN_DATA.lock().await, second acquisition
Lock2(p) ==
    /\ pc[p] = "lock2"
    /\ lock = 0
    /\ lock' = p
    /\ pc' = [pc EXCEPT ![p] = "store"]
    /\ UNCHANGED <<now, pattern, peak, cache, issued, lastWriter, req, observed,
                   checkedAt, newtok, tokRet, exchanges, exchOutcome,
                   remoteCalls, url, remote, resp>>

StoredKeepCurrent(current, new_token_data) ==
    IF current # << >> THEN current ELSE <<new_token_data>>

\* *token_data = Some(new_token_data.clone())
Stored(current, new_token_data) == <<new_token_data>>

\* The store under the lock, and Ok(new_token_data.access_token)
Store(p) ==
    /\ pc[p] = "store"
    /\ cache' = Stored(cache, newtok[p])
    /\ lastWriter' = p
    /\ lock' = 0
    /\ tokRet' = [tokRet EXCEPT ![p] = <<newtok[p].access_token>>]
    /\ pc' = [pc EXCEPT ![p] = "gotToken"]
    /\ UNCHANGED <<now, pattern, peak, issued, req, observed, checkedAt, newtok,
                   exchanges, exchOutcome, remoteCalls, url, remote, resp>>

\* The request is over (answered, or its task panicked); the task's locals go
Finish(p) ==
    /\ \/ pc[p] \in {"done", "panicked"}
       \/ pc[p] = "gotToken" /\ req[p].kind = "token"
    /\ pc' = [pc EXCEPT ![p] = "idle"]
    /\ req' = [req EXCEPT ![p] = NoReq]
    /\ observed' = [observed EXCEPT ![p] = << >>]
    /\ checkedAt' = [checkedAt EXCEPT ![p] = 0]
    /\ newtok' = [newtok EXCEPT ![p] = NoToken]
    /\ tokRet' = [tokRet EXCEPT ![p] = << >>]
    /\ exchanges' = [exchanges EXCEPT ![p] = 0]
    /\ exchOutcome' = [exchOutcome EXCEPT ![p] = "none"]
    /\ remoteCalls' = [remoteCalls EXCEPT ![p] = 0]
    /\ url' = [url EXCEPT ![p] = << >>]
    /\ remote' = [remote EXCEPT ![p] = NoRemote]
    /\ resp' = [resp EXCEPT ![p] = NoResp]
    /\ UNCHANGED <<now, pattern, peak, cache, lock, issued, lastWriter>>

GetToken(p) ==
    \/ Lock1(p)
    \/ Check(p)
    \/ Send(p)
    \/ ExchangeOk(p)
    \/ ExchangeFail(p)
    \/ Lock2(p)
    \/ Store(p)

\* Concurrent callers of get_token, with time passing freely
Next ==
    \/ Tick
    \/ \E p \in Procs : Call(p) \/ GetToken(p) \/ Finish(p)

Spec == Init /\ [][Next]_vars

\* Concurrent callers under the scheduling of the tokio runtime: a task that
\* can take a step takes it, every exchange call returns, and the mutex,
\* which queues its waiters first come first served, hands the lock to every
\* waiter
Fairness ==
    \A p \in Procs :
        /\ SF_vars(Lock1(p) \/ Lock2(p))
        /\ WF_vars(Check(p) \/ Send(p) \/ ExchangeOk(p) \/ ExchangeFail(p)
                       \/ Store(p))

\* get_token does not read the filename pattern: the default one is configured
InitDefaultPattern == Init /\ pattern = PatAll

SpecFair == InitDefaultPattern /\ [][Next]_vars /\ Fairness

\* One get_token call at a time, time passing between the calls
NextSeq ==
    \/ TickBetweenCalls
    \/ \E p \in Procs : SeqCall(p) \/ GetToken(p) \/ Finish(p)

SpecSeq == Init /\ [][NextSeq]_vars

\* =============================================================== handlers
\* What the Graph call of a request can come back with
Failures(kinds) == {[kind |-> k, payload |-> << >>] : k \in kinds}

\* GET .../drive/root{part}{key}: an item, an error body that is no Item
\* ("notfound": Graph's itemNotFound, "unparsable": anything else), or no
\* response at all
MetadataOutcomes ==
    {[kind |-> "item", payload |-> <<it>>] : it \in Items}
        \cup Failures({"notfound", "unparsable", "transport"})

\* GET .../drive/root{relative_path}?$top=..: an item collection, a body that
\* is no SharePointObjects, or no response at all
CatalogOutcomes ==
    {[kind |-> "items", payload |-> c] : c \in Collections}
        \cup Failures({"unparsable", "transport"})

\* GET .../drive/root:/{key}:/content: a response with or without a
\* Content-Type header, or no response at all
ContentOutcomes == Failures({"content", "noheader", "transport"})

\* A request starts when the tasks are idle: requests are served one by one
Begin(p, r) ==
    /\ \A q \in Procs : pc[q] = "idle"
    /\ req' = [req EXCEPT ![p] = r]

\* head_handler up to the get_token call of head_azure_object
HeadBegin(p) ==
    /\ \E k \in Keys : Begin(p, [NoReq EXCEPT !.kind = "head", !.key = k])
    /\ pc' = [pc EXCEPT ![p] = "start"]
    /\ UNCHANGED <<now, pattern, peak, tokenVars, remoteCalls, url, remote, resp>>

\* head_azure_object after get_token, and the rest of head_handler
HeadReturn(p) ==
    /\ pc[p] = "gotToken"
    /\ req[p].kind = "head"
    /\ remoteCalls' = [remoteCalls EXCEPT ![p] = @ + 1]
    /\ url' = [url EXCEPT ![p] = head_url(req[p].key)]
    /\ \E o \in MetadataOutcomes :
          /\ remote' = [remote EXCEPT ![p] = o]
          /\ CASE o.kind = "item" ->
                    /\ resp' = [resp EXCEPT ![p] = head_handler_ok(
                                   head_resolve(pattern, req[p].key, o.payload[1]))]
                    /\ pc' = [pc EXCEPT ![p] = "done"]
               [] o.kind \in {"notfound", "unparsable"} ->
                    /\ resp' = [resp EXCEPT ![p] = head_handler_err]
                    /\ pc' = [pc EXCEPT ![p] = "done"]
               [] OTHER ->
                    /\ resp' = [resp EXCEPT ![p] = Aborted]
                    /\ pc' = [pc EXCEPT ![p] = "panicked"]
    /\ UNCHANGED <<now, pattern, peak, tokenVars, req>>

\* get_object up to the get_token call of get_azure_object_data
GetBegin(p) ==
    /\ \E k \in Keys :
          /\ Begin(p, [NoReq EXCEPT !.kind = "get", !.key = k])
          /\ IF ~get_object_gate(pattern, k)
             THEN /\ resp' = [resp EXCEPT ![p] = Forbidden]
                  /\ pc' = [pc EXCEPT ![p] = "done"]
             ELSE /\ resp' = resp
                  /\ pc' = [pc EXCEPT ![p] = "start"]
    /\ UNCHANGED <<now, pattern, peak, tokenVars, remoteCalls, url, remote>>

\* get_azure_object_data after get_token, and the rest of get_object
GetReturn(p) ==
    /\ pc[p] = "gotToken"
    /\ req[p].kind = "get"
    /\ remoteCalls' = [remoteCalls EXCEPT ![p] = @ + 1]
    /\ url' = [url EXCEPT ![p] =
                  Str_colon_slash \o req[p].key \o <<":">>
                      \o <<"/", "c", "o", "n", "t", "e", "n", "t">>]
    /\ \E o \in ContentOutcomes :
          /\ remote' = [remote EXCEPT ![p] = o]
          /\ CASE o.kind = "content" ->
                    /\ resp' = [resp EXCEPT ![p] =
                                   get_object_ok("application/octet-stream", req[p].key)]
                    /\ pc' = [pc EXCEPT ![p] = "done"]
               [] o.kind = "transport" ->
                    /\ resp' = [resp EXCEPT ![p] = ServerError]
                    /\ pc' = [pc EXCEPT ![p] = "done"]
               [] OTHER ->
                    /\ resp' = [resp EXCEPT ![p] = Aborted]
                    /\ pc' = [pc EXCEPT ![p] = "panicked"]
    /\ UNCHANGED <<now, pattern, peak, tokenVars, req>>

\* The `prefix` query parameter: absent, or one of Prefixes
PrefixParams == {<< >>} \cup {<<x>> : x \in Prefixes}

\* list_objects_v1 up to the get_token call of list_azure_objects
ListBegin(p) ==
    /\ \E param \in PrefixParams :
          Begin(p, [NoReq EXCEPT !.kind = "list", !.param = param,
                                 !.prefix = trim_end_matches(unwrap_or(param, Str_slash))])
    /\ pc' = [pc EXCEPT ![p] = "start"]
    /\ UNCHANGED <<now, pattern, peak, tokenVars, remoteCalls, url, remote, resp>>

\* config().sharepoint_site_id, the bucket name of the listing
SiteId == <<"s">>

\* list_azure_objects after get_token, and the rest of list_objects_v1
ListReturn(p) ==
    /\ pc[p] = "gotToken"
    /\ req[p].kind = "list"
    /\ remoteCalls' = [remoteCalls EXCEPT ![p] = @ + 1]
    /\ url' = [url EXCEPT ![p] = prepare_prefix(req[p].prefix, Str_empty)]
    /\ \E o \in CatalogOutcomes :
          /\ remote' = [remote EXCEPT ![p] = o]
          /\ CASE o.kind = "items" ->
                    /\ resp' = [resp EXCEPT ![p] = list_ok(
                                   generate_s3_list_objects_v2_response(
                                       pattern, SiteId, req[p].prefix, o.payload, FALSE))]
                    /\ pc' = [pc EXCEPT ![p] = "done"]
               [] o.kind = "unparsable" ->
                    /\ resp' = [resp EXCEPT ![p] = ServerError]
                    /\ pc' = [pc EXCEPT ![p] = "done"]
               [] OTHER ->
                    /\ resp' = [resp EXCEPT ![p] = Aborted]
                    /\ pc' = [pc EXCEPT ![p] = "panicked"]
    /\ UNCHANGED <<now, pattern, peak, tokenVars, req>>

\* search_handler up to the get_token call of list_azure_objects
SearchBegin(p) ==
    /\ \E x \in Prefixes, q \in Queries :
          Begin(p, [NoReq EXCEPT !.kind = "search", !.prefix = x, !.query = q])
    /\ pc' = [pc EXCEPT ![p] = "start"]
    /\ UNCHANGED <<now, pattern, peak, tokenVars, remoteCalls, url, remote, resp>>

\* list_azure_objects after get_token, and the rest of search_handler
SearchReturn(p) ==
    /\ pc[p] = "gotToken"
    /\ req[p].kind = "search"
    /\ remoteCalls' = [remoteCalls EXCEPT ![p] = @ + 1]
    /\ url' = [url EXCEPT ![p] = prepare_prefix(req[p].prefix, req[p].query)]
    /\ \E o \in CatalogOutcomes :
          /\ remote' = [remote EXCEPT ![p] = o]
          /\ CASE o.kind = "items" ->
                    /\ resp' = [resp EXCEPT ![p] =
                                   search_ok(search_results(pattern, o.payload))]
                    /\ pc' = [pc EXCEPT ![p] = "done"]
               [] o.kind = "unparsable" ->
                    /\ resp' = [resp EXCEPT ![p] = ServerError]
                    /\ pc' = [pc EXCEPT ![p] = "done"]
               [] OTHER ->
                    /\ resp' = [resp EXCEPT ![p] = Aborted]
                    /\ pc' = [pc EXCEPT ![p] = "panicked"]
    /\ UNCHANGED <<now, pattern, peak, tokenVars, req>>

Handler(p) ==
    \/ HeadBegin(p)
    \/ HeadReturn(p)
    \/ GetBegin(p)
    \/ GetReturn(p)
    \/ ListBegin(p)
    \/ ListReturn(p)
    \/ SearchBegin(p)
    \/ SearchReturn(p)

\* The four handlers, one request at a time
NextReq ==
    \E p \in Procs : Handler(p) \/ GetToken(p) \/ Finish(p)

SpecReq == Init /\ [][NextReq]_vars

\* ================================================================= claims
\* What a get_token call saw under the lock: a token with now < expires_at
SawValid(p) ==
    observed[p] # << >> /\ checkedAt[p] < observed[p][1].expires_at

\* C1: with get_token calls made one after the other, a call that finds the
\* cache absent or with expires_at <= now performs exactly one token exchange
\* and, when it returns, has stored the fetched token, whose expires_at is in
\* the future; a call that finds the cached token with now < expires_at
\* returns that same token, performs no exchange and leaves the cache as it
\* was. A call whose exchange fails has performed exactly one exchange too.
C1_SequentialCaching ==
    \A p \in Procs :
        /\ pc[p] = "gotToken" /\ ~SawValid(p) =>
              /\ exchanges[p] = 1
              /\ cache = <<newtok[p]>>
              /\ cache # observed[p]
              /\ now < cache[1].expires_at
              /\ tokRet[p] = <<cache[1].access_token>>
        /\ pc[p] = "gotToken" /\ SawValid(p) =>
              /\ exchanges[p] = 0
              /\ cache = observed[p]
              /\ tokRet[p] = <<cache[1].access_token>>
        /\ pc[p] = "panicked" => exchanges[p] = 1

\* The second issued token, stored after the first one had expired, is
\* returned from the cache by a later call without an exchange
C1_Witness ==
    \E p \in Procs :
        /\ pc[p] = "gotToken"
        /\ SawValid(p)
        /\ exchanges[p] = 0
        /\ cache # << >>
        /\ cache[1].access_token = 2
        /\ tokRet[p] = <<2>>
        /\ now > 0

\* C2: a caller that saw the cache absent or expired performs its own token
\* exchange and returns the token it fetched itself, whatever other callers
\* did in the meantime; and the cache holds the token of the caller that
\* stored last.
C2_NoDedupLastWriterWins ==
    /\ \A p \in Procs :
          pc[p] = "gotToken" /\ ~SawValid(p) =>
              /\ exchanges[p] = 1
              /\ tokRet[p] = <<newtok[p].access_token>>
    /\ \A p \in Procs :
          lastWriter = p /\ pc[p] = "gotToken" /\ exchanges[p] = 1 =>
              cache = <<newtok[p]>>

\* Both callers saw the empty cache, their two exchanges were in flight at
\* the same time, each returned its own token, and the cache holds the token
\* of caller 2, which stored after caller 1
C2_Witness ==
    /\ peak = 2
    /\ \A p \in Procs :
          /\ pc[p] = "gotToken"
          /\ observed[p] = << >>
          /\ exchanges[p] = 1
          /\ tokRet[p] = <<newtok[p].access_token>>
    /\ tokRet[1] # tokRet[2]
    /\ lastWriter = 2
    /\ cache = <<newtok[2]>>
    /\ cache # <<newtok[1]>>

\* ------------------------------------------------------------------- HEAD
\* A finished HEAD request
HeadDone(p) == req[p].kind = "head" /\ pc[p] = "done"

FetchedFolder(p) ==
    remote[p].kind = "item" /\ remote[p].payload[1].folder /\ ~remote[p].payload[1].file

FetchedFile(p) ==
    remote[p].kind = "item" /\ remote[p].payload[1].file /\ ~remote[p].payload[1].folder

FetchedMissing(p) == remote[p].kind = "notfound"

HeadAnswer(p, status, ctype, size) ==
    resp[p].status = status /\ resp[p].ctype = ctype /\ resp[p].size = size

\* The HEAD decision table, for a key that counts as ending with '/' or not
HeadTable(p, trailing) ==
    /\ trailing /\ FetchedFolder(p) => HeadAnswer(p, 200, "application/xml", 0)
    /\ trailing /\ (FetchedFile(p) \/ FetchedMissing(p)) =>
          HeadAnswer(p, 404, "application/xml", 0)
    /\ ~trailing /\ FetchedFile(p) /\ is_match(pattern, remote[p].payload[1].name) =>
          HeadAnswer(p, 200, remote[p].payload[1].mime_type,
                     IF remote[p].payload[1].size = << >>
                     THEN 0 ELSE remote[p].payload[1].size[1])
    /\ ~trailing /\ FetchedFile(p) /\ ~is_match(pattern, remote[p].payload[1].name) =>
          HeadAnswer(p, 403, "application/xml", 0)
    /\ ~trailing /\ (FetchedFolder(p) \/ FetchedMissing(p)) =>
          HeadAnswer(p, 404, "application/xml", 0)

\* C3 as stated: the HEAD decision table holds with "requested key ends with
\* '/'" read off the requested key itself.
C3_TableOnRequestedKey ==
    \A p \in Procs :
        HeadDone(p) => HeadTable(p, ends_with_slash(req[p].key))

\* C3, amended: the HEAD decision table holds when the empty requested key
\* counts as a key that ends with '/' (it is probed as "/").
C3_TableOnProbedKey ==
    \A p \in Procs :
        HeadDone(p) =>
            HeadTable(p, req[p].key = Str_empty \/ ends_with_slash(req[p].key))

\* A HEAD on the empty key whose probe returned a folder is answered 200
C3_Witness ==
    \E p \in Procs :
        /\ HeadDone(p)
        /\ req[p].key = Str_empty
        /\ FetchedFolder(p)
        /\ HeadAnswer(p, 200, "application/xml", 0)

\* C4: on a HEAD request a failed metadata call (no response, a body that is
\* no item, no token) is never answered 404; 404 is only the answer to a
\* fetched item of the wrong kind for the key, or to a remote "not found".
C4_FailureIsNot404 ==
    \A p \in Procs :
        req[p].kind = "head" /\ pc[p] \in {"done", "panicked"} =>
            /\ (remote[p].kind \in {"unparsable", "transport"}
                    \/ exchOutcome[p] \in ExchangeFailures)
                  => resp[p].status # 404
            /\ resp[p].status = 404 => remote[p].kind \in {"item", "notfound"}

\* -------------------------------------------------------------------- GET
\* C5: a GET on a key whose final path segment fails the pattern is answered
\* 403 with no token exchange and no Graph call; a GET on a key whose final
\* path segment matches the pattern is never answered 403.
C5_GateOnFinalName ==
    \A p \in Procs :
        req[p].kind = "get" /\ pc[p] # "idle" =>
            IF is_match(pattern, split_last(req[p].key))
            THEN resp[p].status # 403
            ELSE /\ pc[p] = "done"
                 /\ resp[p].status = 403
                 /\ exchanges[p] = 0
                 /\ remoteCalls[p] = 0

\* ------------------------------------------------------------ AuthFailure
\* C6: a request whose token exchange failed has sent exactly one exchange,
\* got an error value back from get_token and is answered with a server
\* error; its task does not abort.
C6_AuthFailureSurfaced ==
    \A p \in Procs :
        exchOutcome[p] \in ExchangeFailures =>
            /\ exchanges[p] = 1
            /\ pc[p] # "panicked"
            /\ resp[p].status = 500

\* ------------------------------------------------------------------- LIST
\* A finished listing that rendered an item collection
ListDone(p) ==
    req[p].kind = "list" /\ pc[p] = "done" /\ remote[p].kind = "items"

TextsOf(elements) == [i \in 1..Len(elements) |-> elements[i].text]

ContentsOf(body) == SelectSeq(body, LAMBDA e : e.tag = "Contents")

CommonPrefixesOf(body) == SelectSeq(body, LAMBDA e : e.tag = "CommonPrefixes")

\* The Contents elements with the children of a file entry
FileEntriesOf(body) ==
    SelectSeq(body, LAMBDA e : e.tag = "Contents" /\ e.storageClass = "STANDARD")

\* The keys of the File-kind items whose raw name the pattern matches
MatchingFileKeys(prefix, objects) ==
    LET kept == SelectSeq(objects, LAMBDA it : it.file /\ is_match(pattern, it.name))
    IN  [i \in 1..Len(kept) |-> trim_start_matches(prefix) \o Str_slash \o kept[i].name]

FolderPrefixes(prefix, objects) ==
    LET kept == SelectSeq(objects, LAMBDA it : it.folder)
    IN  [i \in 1..Len(kept) |->
            trim_start_matches(prefix) \o Str_slash \o kept[i].name \o Str_slash]

\* C7: the listing holds exactly one Contents element per File-kind item whose
\* name passes the pattern, in collection order, and no other Contents
\* element; it holds one CommonPrefixes element per Folder-kind item, all of
\* them before the first Contents element.
C7_ContentsPerMatchingFile ==
    \A p \in Procs :
        ListDone(p) =>
            /\ TextsOf(ContentsOf(resp[p].body))
                  = MatchingFileKeys(req[p].prefix, remote[p].payload)
            /\ TextsOf(CommonPrefixesOf(resp[p].body))
                  = FolderPrefixes(req[p].prefix, remote[p].payload)
            /\ \A i, j \in 1..Len(resp[p].body) :
                  resp[p].body[i].tag = "CommonPrefixes"
                      /\ resp[p].body[j].tag = "Contents" => i < j

\* A finished search that filtered an item collection
SearchDone(p) ==
    req[p].kind = "search" /\ pc[p] = "done" /\ remote[p].kind = "items"

FilesAndFolders(objects) == \A i \in 1..Len(objects) : objects[i].file \/ objects[i].folder

MatchingFileNames(objects) ==
    LET kept == SelectSeq(objects, LAMBDA it : it.file /\ is_match(pattern, it.name))
    IN  [i \in 1..Len(kept) |-> kept[i].name]

\* C8: of a collection of files and folders, the file entries of a listing
\* and the results of a search are exactly the File-kind items whose raw name
\* the pattern matches; no folder is among them.
C8_FilterOnRawName ==
    \A p \in Procs :
        /\ ListDone(p) =>
              TextsOf(FileEntriesOf(resp[p].body))
                  = MatchingFileKeys(req[p].prefix, remote[p].payload)
        /\ SearchDone(p) /\ FilesAndFolders(remote[p].payload) =>
              resp[p].body = MatchingFileNames(remote[p].payload)

\* ------------------------------------------------------- path translation
\* Root or sub-path addressing, chosen by the prefix alone
Addressing(prefix) ==
    IF prefix = Str_empty \/ prefix = Str_slash
    THEN Str_empty
    ELSE <<":", "/">> \o trim_end_matches(trim_start_matches(prefix)) \o <<":">>

\* Children or search mode, chosen by the query alone
Mode(query) ==
    IF query = Str_empty
    THEN <<"/", "c", "h", "i", "l", "d", "r", "e", "n">>
    ELSE <<"/", "s", "e", "a", "r", "c", "h", "(", "q", "=", "'">> \o query \o <<"'", ")">>

\* C9: the relative path of every catalog call is the addressing part, which
\* is the root one iff the prefix is empty or "/" and else names the prefix
\* trimmed of leading and trailing '/', followed by the mode part, which is
\* "children" iff the query is empty and else the search for the query.
C9_AddressingAndModeIndependent ==
    \A p \in Procs :
        req[p].kind \in {"list", "search"} /\ remoteCalls[p] = 1 =>
            url[p] = Addressing(req[p].prefix) \o Mode(req[p].query)

\* A search for "x" under "/docs/" went to :/docs:/search(q='x')
C9_Witness ==
    \E p \in Procs :
        /\ SearchDone(p)
        /\ req[p].prefix = Str_slash_docs_slash
        /\ req[p].query = Str_x
        /\ url[p] = <<":", "/", "d", "o", "c", "s", ":", "/", "s", "e", "a", "r",
                      "c", "h", "(", "q", "=", "'", "x", "'", ")">>

\* C10: with the match-all pattern, the listing under prefix "/" of one
\* folder "docs" and one file "a.txt" holds the single common prefix docs/
\* and the single file entry a.txt.
C10_RootListingKeys ==
    \A p \in Procs :
        /\ ListDone(p)
        /\ pattern = PatAll
        /\ req[p].param = <<Str_slash>>
        /\ remote[p].payload = <<Item(Str_docs, "folder"), Item(Str_a_txt, "file")>>
        => /\ TextsOf(CommonPrefixesOf(resp[p].body)) = <<Str_docs_slash>>
           /\ TextsOf(FileEntriesOf(resp[p].body)) = <<Str_a_txt>>

\* ------------------------------------------------------------ token lock
\* The mutex is held exactly by the callers inside one of the two short
\* sections: the validity check and the store
LockOnlyInSections ==
    /\ \A p \in Procs : lock = p <=> pc[p] \in {"check", "store"}
    /\ lock \in Procs \cup {0}

\* A get_token call is over: it returned a token or its task ended
CallOver(p) == pc[p] \in {"gotToken", "panicked"}

\* C11: the token lock is never held by a caller whose exchange is pending
\* (it is held only during the validity check and the store), so a caller
\* waiting for the lock is never kept out by another caller's exchange; and
\* under fair scheduling, with every exchange call returning, every
\* get_token call that was started is eventually over.
C11_LockFreeExchangeAndTermination ==
    /\ []LockOnlyInSections
    /\ \A p \in Procs : (pc[p] = "start") ~> CallOver(p)

\* Caller 2 got the valid cached token, without an exchange, while the
\* exchange of caller 1 is still in flight and the lock is free
C11_Witness ==
    /\ pc[1] = "inflight"
    /\ pc[2] = "gotToken"
    /\ SawValid(2)
    /\ exchanges[2] = 0
    /\ lock = 0

\* A get_token call whose token exchange failed
ExchangeFailed(p) == pc[p] = "panicked" /\ exchOutcome[p] \in ExchangeFailures

\* After a failed exchange the caller does not hold the lock, and the cache
\* is what the caller read from it unless another caller has stored since
FailureLeavesCache ==
    \A p \in Procs :
        ExchangeFailed(p) =>
            /\ lock # p
            /\ cache # observed[p] => lastWriter \in Procs \ {p}

\* The step in which an exchange fails changes neither the cache nor the lock
FailureStepFrame ==
    \A p \in Procs :
        pc[p] = "inflight" /\ pc'[p] = "panicked" => cache' = cache /\ lock' = lock

\* C12: a failed token exchange leaves the token cache unchanged and
\* unlocked: the failing step writes neither the cache nor the lock, after
\* it the cache holds what it held before the call (unless another caller
\* stored a token meanwhile) and the failed caller does not hold the lock, so
\* other callers can acquire it.
C12_FailureLeavesCacheAndLock ==
    /\ []FailureLeavesCache
    /\ [][FailureStepFrame]_vars

\* The exchange of caller 1 failed; the expired token it had found is still
\* the cached one, and caller 2 has acquired the lock since
C12_Witness ==
    /\ ExchangeFailed(1)
    /\ cache # << >>
    /\ cache = observed[1]
    /\ pc[2] = "check"
    /\ lock = 2

\* ------------------------------------------------------ listing and HEAD
\* The listing of the collection that holds just the given item shows it as
\* a file entry
Listed(item) ==
    Len(FileEntriesOf(generate_s3_list_objects_v2_response(
            pattern, SiteId, Str_empty, <<item>>, FALSE))) = 1

\* C13: for every File-kind item, a HEAD on its key (no trailing '/') is
\* answered 403 exactly when the listing of the same item leaves it out: no
\* listed file is refused by the HEAD name gate and no refused file is listed.
C13_ListingAgreesWithHeadGate ==
    \A p \in Procs :
        /\ HeadDone(p)
        /\ FetchedFile(p)
        /\ req[p].key # Str_empty
        /\ ~ends_with_slash(req[p].key)
        => (resp[p].status # 403 <=> Listed(remote[p].payload[1]))

====
